---- MODULE Spec2Model ----
(***************************************************************************)
(* Model of contrib/inventory/puppetdb.py: the PuppetDB dynamic inventory  *)
(* script.  One run of main() is a sequential state machine:               *)
(*   parse_args -> parse_config -> environment override -> db_connect ->   *)
(*   node query -> per-node facts queries -> resource query -> resource    *)
(*   loop -> print.                                                        *)
(* Python strings that the script transforms (resource titles, group       *)
(* names, strip patterns) are sequences of one-character strings; other    *)
(* Python values are records [type, val] tagged with their Python type.    *)
(***************************************************************************)
EXTENDS Integers, Sequences, FiniteSets

\* ------------------------------------------------------------------------
\* Bounds of the model
\* ------------------------------------------------------------------------
MaxResources == 2   \* resources returned by one resource query
MaxNameLen == 4     \* length of the titles drawn in the derivation spec
MaxPatLen == 2      \* length of the literal of a strip pattern drawn there

\* ------------------------------------------------------------------------
\* Python values
\* ------------------------------------------------------------------------
PyNone == [type |-> "NoneType", val |-> "None"]
PyStr(s) == [type |-> "str", val |-> s]
PyInt(n) == [type |-> "int", val |-> n]

\* Python truthiness of a tagged value (`if x:`).
Truthy(v) ==
    CASE v.type = "NoneType" -> FALSE
      [] v.type = "int" -> v.val # 0
      [] v.type = "str" -> v.val # ""
      [] OTHER -> TRUE

Range(s) == {s[i] : i \in 1..Len(s)}

\* The empty dict().
EmptyDict == [k \in {} |-> PyNone]

\* d[k] = v on a dict (adds the key or replaces its value).
DictSet(d, k, v) == [x \in DOMAIN d \cup {k} |-> IF x = k THEN v ELSE d[x]]

\* ------------------------------------------------------------------------
\* Program constants
\* ------------------------------------------------------------------------
HOME_CONFIG == "~/.puppetdb.yml"
GLOBAL_CONFIG == "/etc/ansible/puppetdb.yml"
CONFIG_FILES == <<HOME_CONFIG, GLOBAL_CONFIG>>
NODE_ENVS == <<"catalog_environment", "facts_environment", "report_environment">>
DEFAULT_LAST_REPORT == 2
FACT_VALUE_TYPES == {"str", "unicode", "int", "float", "bool"}

\* ------------------------------------------------------------------------
\* Strings as character sequences; str.lower() and re.sub()
\* ------------------------------------------------------------------------
UpperCase == <<"A","B","C","D","E","F","G","H","I","J","K","L","M",
               "N","O","P","Q","R","S","T","U","V","W","X","Y","Z">>
LowerCase == <<"a","b","c","d","e","f","g","h","i","j","k","l","m",
               "n","o","p","q","r","s","t","u","v","w","x","y","z">>

\* One character of str.lower(): A-Z map to a-z, everything else is kept.
LowerChar(c) ==
    IF \E i \in 1..26 : UpperCase[i] = c
    THEN LowerCase[CHOOSE i \in 1..26 : UpperCase[i] = c]
    ELSE c

\* str.lower()
lower(s) == [i \in 1..Len(s) |-> LowerChar(s[i])]

\* A regular expression of the class modelled: a literal, optionally
\* anchored at the start of the string ('lit' or '^lit').
Pattern(anchored, lit) == [anchored |-> anchored, lit |-> lit]

\* Whether the pattern matches at position i of s (1-based).
MatchAt(pat, s, i) ==
    /\ (pat.anchored => i = 1)
    /\ i + Len(pat.lit) - 1 <= Len(s)
    /\ SubSeq(s, i, i + Len(pat.lit) - 1) = pat.lit

\* re.search(pat, s) is not None
Matches(pat, s) == \E i \in 1..(Len(s) + 1) : MatchAt(pat, s, i)

\* The left-to-right scan of re.sub from position i: every leftmost
\* non-overlapping match is replaced by repl, other characters are copied.
\* An empty match consumes nothing, so the character after it is copied.
RECURSIVE SubFrom(_, _, _, _)
SubFrom(pat, repl, s, i) ==
    IF i > Len(s)
    THEN IF MatchAt(pat, s, i) THEN repl ELSE <<>>
    ELSE IF MatchAt(pat, s, i)
         THEN IF pat.lit = <<>>
              THEN repl \o <<s[i]>> \o SubFrom(pat, repl, s, i + 1)
              ELSE repl \o SubFrom(pat, repl, s, i + Len(pat.lit))
         ELSE <<s[i]>> \o SubFrom(pat, repl, s, i + 1)

\* re.sub(pat, repl, s)
re_sub(pat, repl, s) == SubFrom(pat, repl, s, 1)

\* The literal pattern '::' of the second substitution.
ColonColon == Pattern(FALSE, <<":", ":">>)

\* A plausible slip: '::' replaced by ':' instead of '_'.
GroupNameColon(title_strip, name) ==
    re_sub(ColonColon, <<":">>, lower(re_sub(title_strip, <<>>, name)))

\* A plausible slip: the strip result is not lowercased.
GroupNameNoLower(title_strip, name) ==
    re_sub(ColonColon, <<"_">>, re_sub(title_strip, <<>>, name))

\* The group key of a resource: strip, lowercase, then '::' -> '_'.
GroupName(title_strip, name) ==
    re_sub(ColonColon, <<"_">>, lower(re_sub(title_strip, <<>>, name)))

\* ------------------------------------------------------------------------
\* Inputs of a run: command line, configuration files, PuppetDB answers
\* ------------------------------------------------------------------------
\* argparse results: --list given (otherwise --host NAME was given, the group
\* is mutually exclusive and required), and --environment (None when absent;
\* `--environment ''` is accepted by argparse and yields the empty string).
ArgSets ==
    [list : BOOLEAN,
     environment : {PyNone, PyStr(""), PyStr("staging")}]

Motd == <<"m","o","t","d","_">>

\* Values of query.title_strip: '^motd_' and '' (strip nothing).
StripPatterns == {Pattern(TRUE, Motd), Pattern(FALSE, <<>>)}

\* Node filters of a configuration file: last_report (null, 0 or 3) with
\* the deactivated and expired switches.
DefaultFilter == [last_report |-> PyNone, deactivated |-> FALSE, expired |-> FALSE]
NodeFilters ==
    {DefaultFilter,
     [last_report |-> PyInt(0), deactivated |-> TRUE, expired |-> FALSE],
     [last_report |-> PyInt(3), deactivated |-> FALSE, expired |-> TRUE]}

\* The `query` mapping of a configuration file (all keys present): every
\* strip pattern with and without fact hostvars under the default node
\* filter, and the other node filters under '^motd_' without fact hostvars.
QueryConfigs ==
    {[environment |-> "prod",
      resource_type |-> "Motd",
      title_regexp |-> "^motd_",
      title_strip |-> c.strip,
      facts_as_hostvars |-> c.facts,
      last_report |-> c.filter.last_report,
      deactivated |-> c.filter.deactivated,
      expired |-> c.filter.expired] :
        c \in {d \in [strip : StripPatterns,
                       facts : {<<>>, <<"os", "ver">>},
                       filter : NodeFilters] :
                  d.filter = DefaultFilter \/ (d.strip.anchored /\ d.facts = <<>>)}}

\* The `puppetdb` mapping of a configuration file: pypuppetdb connect()
\* keyword arguments, with or without the extra key ca_cert.
PuppetdbConfigs ==
    {[host |-> PyStr("pdb.example.org")],
     [host |-> PyStr("pdb.example.org"), ca_cert |-> PyStr("/etc/ssl/ca.pem")]}

\* YAML documents of the user-level file: any of the two top-level keys may
\* be missing.
HomeConfigs ==
    {EmptyDict}
    \cup {[puppetdb |-> p] : p \in PuppetdbConfigs}
    \cup {[query |-> q] : q \in QueryConfigs}
    \cup {[puppetdb |-> p, query |-> q] : p \in PuppetdbConfigs, q \in QueryConfigs}

\* The YAML document of the system-level file, when it exists.
GlobalConfig ==
    [puppetdb |-> [host |-> PyStr("pdb.example.org")],
     query |-> [environment |-> "dev", resource_type |-> "Motd",
                title_regexp |-> "^motd_", title_strip |-> Pattern(TRUE, Motd),
                facts_as_hostvars |-> <<>>, last_report |-> PyNone,
                deactivated |-> FALSE, expired |-> FALSE]]

Unreadable == [readable |-> FALSE, yaml |-> EmptyDict]

\* The file system: for each candidate path, whether it is a readable file
\* and the document yaml.safe_load returns for it.  Either only the
\* user-level file exists, or the system-level file exists beside no
\* user-level file or beside one that lacks a top-level key.
FileSystems ==
    {[f \in Range(CONFIG_FILES) |-> IF f = HOME_CONFIG THEN h ELSE Unreadable] :
        h \in {Unreadable} \cup {[readable |-> TRUE, yaml |-> c] : c \in HomeConfigs}}
    \cup
    {[f \in Range(CONFIG_FILES) |->
        IF f = HOME_CONFIG THEN h ELSE [readable |-> TRUE, yaml |-> GlobalConfig]] :
        h \in {Unreadable} \cup
              {[readable |-> TRUE, yaml |-> c] :
                  c \in {EmptyDict} \cup {[puppetdb |-> p] : p \in PuppetdbConfigs}}}

\* Certnames known to PuppetDB.
Hosts == {"host1", "host2"}

\* Answers of the node query: certnames are unique, any order.
NodeLists ==
    {s \in UNION {[1..n -> Hosts] : n \in 0..Cardinality(Hosts)} :
        \A i, j \in 1..Len(s) : i # j => s[i] # s[j]}

\* Facts a node may hold, their values as decoded from JSON and tagged with
\* their Python type: each fact either primitive or structured.
Facts ==
    {[name |-> "os", value |-> [type |-> "unicode", val |-> "Debian"]],
     [name |-> "os", value |-> [type |-> "dict", val |-> "{'family': 'Debian'}"]],
     [name |-> "ver", value |-> [type |-> "int", val |-> 9]],
     [name |-> "ver", value |-> [type |-> "list", val |-> "[9, 4]"]]}

Index(names, x) == CHOOSE i \in 1..Len(names) : names[i] = x

\* Answers of the facts query of one node: at most one fact per requested
\* name (the query filters on certname and on `name in names`).
FactLists(names) ==
    {s \in UNION {[1..n -> {f \in Facts : f.name \in Range(names)}] : n \in 0..Len(names)} :
        \A i, j \in 1..Len(s) : i < j => Index(names, s[i].name) < Index(names, s[j].name)}

\* Resource titles: the title of the documented example, and one that
\* normalises to '_meta' once '^motd_' is stripped.
Titles ==
    {<<"m","o","t","d","_","B","a","n","n","e","r",":",":","M","a","i","n">>,
     <<"m","o","t","d","_",":",":","M","e","t","a">>}

\* Resources the resource query may yield.
Resources == [node : Hosts, name : Titles]

\* ------------------------------------------------------------------------
\* State
\* ------------------------------------------------------------------------
VARIABLES
    pc,         \* position in main(), or "done" / "failed"
    args,       \* parse_args() result
    files,      \* the configuration files on disk
    cfg,        \* the configuration mapping
    loaded,     \* history: cfg as parse_config returned it
    environ,    \* os.environ['REQUESTS_CA_BUNDLE'] (None when unset)
    pdb,        \* connect() keyword arguments once connected
    output,     \* the inventory document under construction
    nodes,      \* names of the nodes discovered so far
    pending,    \* nodes the node query returned, not yet iterated
    queries,    \* history: the queries sent to PuppetDB, in order
    answers,    \* history: the answers of the facts queries, in order
    resources,  \* history: the resources the resource query yielded so far
    error,      \* the uncaught exception, if any
    stdout,     \* what was printed
    exit,       \* the exit status (None while running)
    title,      \* derivation spec: the resource title
    strip,      \* derivation spec: the strip pattern
    group,      \* derivation spec: successive results of the derivation
    stage       \* derivation spec: number of derivations applied

mainVars == <<pc, args, files, cfg, loaded, environ, pdb, output, nodes,
              pending, queries, answers, resources, error, stdout, exit>>
deriveVars == <<title, strip, group, stage>>
vars == <<mainVars, deriveVars>>

NoError == [type |-> "none", key |-> ""]
NotConnected == [connected |-> FALSE, kwargs |-> EmptyDict]
NothingPrinted == [printed |-> FALSE, doc |-> EmptyDict]

\* The key '_meta'.
Meta == <<"_","m","e","t","a">>

\* The derivation spec is idle during a run of main().
DeriveIdle ==
    /\ title = <<>>
    /\ strip = Pattern(FALSE, <<>>)
    /\ group = <<>>
    /\ stage = 0

Init ==
    /\ pc = "parse_args"
    /\ args \in ArgSets
    /\ files \in FileSystems
    /\ cfg = EmptyDict
    /\ loaded = EmptyDict
    /\ environ = PyNone
    /\ pdb = NotConnected
    /\ output = EmptyDict
    /\ nodes = <<>>
    /\ pending = <<>>
    /\ queries = <<>>
    /\ answers = <<>>
    /\ resources = <<>>
    /\ error = NoError
    /\ stdout = NothingPrinted
    /\ exit = PyNone
    /\ DeriveIdle

\* ------------------------------------------------------------------------
\* Functions of the script
\* ------------------------------------------------------------------------
\* A plausible slip: a built-in default configuration when no file is found.
parse_config_default(fs) ==
    IF \E i \in 1..Len(CONFIG_FILES) : fs[CONFIG_FILES[i]].readable
    THEN fs[CONFIG_FILES[CHOOSE i \in 1..Len(CONFIG_FILES) :
                /\ fs[CONFIG_FILES[i]].readable
                /\ \A j \in 1..(i - 1) : ~fs[CONFIG_FILES[j]].readable]].yaml
    ELSE GlobalConfig

\* parse_config(): the document of the first readable candidate file, the
\* empty dict when there is none.
parse_config(fs) ==
    IF \E i \in 1..Len(CONFIG_FILES) : fs[CONFIG_FILES[i]].readable
    THEN fs[CONFIG_FILES[CHOOSE i \in 1..Len(CONFIG_FILES) :
                /\ fs[CONFIG_FILES[i]].readable
                /\ \A j \in 1..(i - 1) : ~fs[CONFIG_FILES[j]].readable]].yaml
    ELSE EmptyDict

\* d.pop(k, None): the dict left once key k is removed (d itself is changed).
Pop(d, k) == [x \in DOMAIN d \ {k} |-> d[x]]

\* The value d.pop(k, None) returns.
Popped(d, k) == IF k \in DOMAIN d THEN d[k] ELSE PyNone

EqualsOperator(field, value) == [op |-> "=", field |-> field, value |-> value]
RegexOperator(field, value) == [op |-> "~", field |-> field, value |-> value]
NullOperator(field, value) == [op |-> "null?", field |-> field, value |-> value]
InOperator(field, values) == [op |-> "in", field |-> field, value |-> values]

\* resource_query_args(cfg): the AND of three predicates.
resource_query_args(q) ==
    [endpoint |-> "resources",
     query |-> << EqualsOperator("environment", q.environment),
                  EqualsOperator("type", q.resource_type),
                  RegexOperator("title", q.title_regexp) >>]

\* node_query_args(cfg)
node_query_args(q) ==
    [endpoint |-> "nodes",
     with_status |-> TRUE,
     unreported |-> IF Truthy(q.last_report) THEN q.last_report
                    ELSE PyInt(DEFAULT_LAST_REPORT),
     query |-> [i \in 1..Len(NODE_ENVS) |-> EqualsOperator(NODE_ENVS[i], q.environment)]
               \o << NullOperator("deactivated", ~q.deactivated),
                     NullOperator("expired", ~q.expired) >>]

\* facts_query_args(node, cfg)
facts_query_args(node, q) ==
    [endpoint |-> "facts",
     query |-> << EqualsOperator("environment", q.environment),
                  EqualsOperator("certname", node),
                  InOperator("name", q.facts_as_hostvars) >>]

\* A plausible slip: the type check is dropped and every value is stored.
hostvars_unchecked(facts) ==
    [raised |-> FALSE,
     host_vars |-> [n \in {facts[i].name : i \in 1..Len(facts)} |->
                      facts[CHOOSE i \in 1..Len(facts) :
                              /\ facts[i].name = n
                              /\ \A j \in (i + 1)..Len(facts) : facts[j].name # n].value]]

\* The loop of hostvars_from_facts from fact i on, with host_vars built so far.
RECURSIVE HostvarsFrom(_, _, _)
HostvarsFrom(facts, i, host_vars) ==
    IF i > Len(facts)
    THEN [raised |-> FALSE, host_vars |-> host_vars]
    ELSE IF facts[i].value.type \notin FACT_VALUE_TYPES
         THEN [raised |-> TRUE, host_vars |-> EmptyDict]
         ELSE HostvarsFrom(facts, i + 1, DictSet(host_vars, facts[i].name, facts[i].value))

\* hostvars_from_facts(facts): the mapping, or a raised ValueError.
hostvars_from_facts(facts) == HostvarsFrom(facts, 1, EmptyDict)

\* A plausible slip: the environment override written to another key.
OverrideWrongKey(c, env) ==
    [c EXCEPT !["query"] = [c["query"] EXCEPT !["resource_type"] = env]]

\* cfg['query']['environment'] = args.environment
Override(c, env) ==
    [c EXCEPT !["query"] = [c["query"] EXCEPT !["environment"] = env]]

\* A plausible slip: the facts are queried whatever facts_as_hostvars holds.
FactsAlways(q) == TRUE

\* `if cfg['query']['facts_as_hostvars']:` (a non-empty list is truthy).
FactsRequested(q) == q.facts_as_hostvars # <<>>

\* A plausible slip: the scope check is dropped.
NeverSkipped(node, discovered) == FALSE

\* `resource.node not in nodes`
Skipped(node, discovered) == node \notin Range(discovered)

\* A plausible slip: the group is (re)created whatever the document holds.
AlwaysCreated(out, g) == TRUE

\* `output.get(group) is None` (no value of the document is None).
IsNewGroup(out, g) == g \notin DOMAIN out

\* ------------------------------------------------------------------------
\* The steps of main()
\* ------------------------------------------------------------------------
\* An uncaught exception: traceback, non-zero exit, nothing printed.
Raise(type, key) ==
    /\ pc' = "failed"
    /\ error' = [type |-> type, key |-> key]
    /\ exit' = PyInt(1)

\* parse_args(), and the --host path that is not implemented.
ParseArgs ==
    /\ pc = "parse_args"
    /\ IF ~args.list
       THEN Raise("RuntimeError", "")
       ELSE /\ pc' = "parse_config"
            /\ UNCHANGED <<error, exit>>
    /\ UNCHANGED <<args, files, cfg, loaded, environ, pdb, output, nodes,
                   pending, queries, answers, resources, stdout>>
    /\ UNCHANGED deriveVars

\* cfg = parse_config()
ParseConfig ==
    /\ pc = "parse_config"
    /\ cfg' = parse_config(files)
    /\ loaded' = cfg'
    /\ pc' = "override"
    /\ UNCHANGED <<args, files, environ, pdb, output, nodes, pending, queries,
                   answers, resources, error, stdout, exit>>
    /\ UNCHANGED deriveVars

\* if args.environment: cfg['query']['environment'] = args.environment
OverrideEnvironment ==
    /\ pc = "override"
    /\ IF Truthy(args.environment)
       THEN IF "query" \in DOMAIN cfg
            THEN /\ cfg' = Override(cfg, args.environment.val)
                 /\ pc' = "db_connect"
                 /\ UNCHANGED <<error, exit>>
            ELSE /\ Raise("KeyError", "query")
                 /\ UNCHANGED cfg
       ELSE /\ pc' = "db_connect"
            /\ UNCHANGED <<cfg, error, exit>>
    /\ UNCHANGED <<args, files, loaded, environ, pdb, output, nodes, pending,
                   queries, answers, resources, stdout>>
    /\ UNCHANGED deriveVars

\* pdb = db_connect(cfg['puppetdb']); output = {'_meta': {'hostvars': {}}}
\* db_connect pops ca_cert from the mapping it is given, which is the
\* configuration's own `puppetdb` mapping.
DbConnect ==
    /\ pc = "db_connect"
    /\ IF "puppetdb" \in DOMAIN cfg
       THEN /\ cfg' = [cfg EXCEPT !["puppetdb"] = Pop(cfg["puppetdb"], "ca_cert")]
            /\ environ' = IF Truthy(Popped(cfg["puppetdb"], "ca_cert"))
                          THEN Popped(cfg["puppetdb"], "ca_cert")
                          ELSE environ
            /\ pdb' = [connected |-> TRUE, kwargs |-> cfg'["puppetdb"]]
            /\ output' = DictSet(EmptyDict, Meta, [hostvars |-> EmptyDict])
            /\ pc' = "node_query"
            /\ UNCHANGED <<error, exit>>
       ELSE /\ Raise("KeyError", "puppetdb")
            /\ UNCHANGED <<cfg, environ, pdb, output>>
    /\ UNCHANGED <<args, files, loaded, nodes, pending, queries, answers,
                   resources, stdout>>
    /\ UNCHANGED deriveVars

\* query_args = node_query_args(cfg['query']); pdb.nodes(**query_args)
NodeQuery ==
    /\ pc = "node_query"
    /\ IF "query" \in DOMAIN cfg
       THEN /\ queries' = Append(queries, node_query_args(cfg["query"]))
            /\ pending' \in NodeLists
            /\ pc' = "node_loop"
            /\ UNCHANGED <<error, exit>>
       ELSE /\ Raise("KeyError", "query")
            /\ UNCHANGED <<queries, pending>>
    /\ UNCHANGED <<args, files, cfg, loaded, environ, pdb, output, nodes,
                   answers, resources, stdout>>
    /\ UNCHANGED deriveVars

\* One iteration of `for node in pdb.nodes(...)`.
NodeLoop ==
    /\ pc = "node_loop"
    /\ pending # <<>>
    /\ nodes' = Append(nodes, Head(pending))
    /\ pending' = Tail(pending)
    /\ IF FactsRequested(cfg["query"])
       THEN /\ queries' = Append(queries, facts_query_args(Head(pending), cfg["query"]))
            /\ \E facts \in FactLists(cfg["query"].facts_as_hostvars) :
                 /\ answers' = Append(answers, facts)
                 /\ IF hostvars_from_facts(facts).raised
                    THEN /\ Raise("ValueError", "")
                         /\ UNCHANGED output
                    ELSE /\ output' = [output EXCEPT ![Meta] =
                               [hostvars |-> DictSet(output[Meta].hostvars, Head(pending),
                                                     hostvars_from_facts(facts).host_vars)]]
                         /\ UNCHANGED <<pc, error, exit>>
       ELSE UNCHANGED <<queries, answers, output, pc, error, exit>>
    /\ UNCHANGED <<args, files, cfg, loaded, environ, pdb, resources, stdout>>
    /\ UNCHANGED deriveVars

\* query_args = resource_query_args(cfg['query']); pdb.resources(**query_args)
ResourceQuery ==
    /\ pc = "node_loop"
    /\ pending = <<>>
    /\ queries' = Append(queries, resource_query_args(cfg["query"]))
    /\ pc' = "resource_loop"
    /\ UNCHANGED <<args, files, cfg, loaded, environ, pdb, output, nodes,
                   pending, answers, resources, error, stdout, exit>>
    /\ UNCHANGED deriveVars

\* One iteration of `for resource in pdb.resources(...)`.
ResourceLoop ==
    /\ pc = "resource_loop"
    /\ Len(resources) < MaxResources
    /\ \E resource \in Resources :
         /\ resources' = Append(resources, resource)
         /\ IF Skipped(resource.node, nodes)
            THEN UNCHANGED <<output, pc, error, exit>>
            ELSE LET g == GroupName(cfg["query"].title_strip, resource.name)
                 IN  IF IsNewGroup(output, g)
                     THEN /\ output' = DictSet(output, g,
                                 [hosts |-> <<resource.node>>, vars |-> EmptyDict])
                          /\ UNCHANGED <<pc, error, exit>>
                     ELSE IF "hosts" \in DOMAIN output[g]
                          THEN /\ output' = [output EXCEPT ![g] =
                                      [output[g] EXCEPT !["hosts"] =
                                          Append(output[g]["hosts"], resource.node)]]
                               /\ UNCHANGED <<pc, error, exit>>
                          ELSE /\ Raise("KeyError", "hosts")
                               /\ UNCHANGED output
    /\ UNCHANGED <<args, files, cfg, loaded, environ, pdb, nodes, pending,
                   queries, answers, stdout>>
    /\ UNCHANGED deriveVars

\* The resource iterator is exhausted: print(to_json(output)); sys.exit(0).
\* The printed text is the document; its serialisation is not modelled.
PrintInventory ==
    /\ pc = "resource_loop"
    /\ stdout' = [printed |-> TRUE, doc |-> output]
    /\ exit' = PyInt(0)
    /\ pc' = "done"
    /\ UNCHANGED <<args, files, cfg, loaded, environ, pdb, output, nodes,
                   pending, queries, answers, resources, error>>
    /\ UNCHANGED deriveVars

Next ==
    \/ ParseArgs
    \/ ParseConfig
    \/ OverrideEnvironment
    \/ DbConnect
    \/ NodeQuery
    \/ NodeLoop
    \/ ResourceQuery
    \/ ResourceLoop
    \/ PrintInventory

Spec == Init /\ [][Next]_vars

\* ------------------------------------------------------------------------
\* The group-name derivation on its own, over all short titles and patterns
\* ------------------------------------------------------------------------
Alphabet == {"a", "A", ":", "_"}

\* Resource titles of at most MaxNameLen characters.
Names == UNION {[1..n -> Alphabet] : n \in 0..MaxNameLen}

\* Strip patterns 'lit' and '^lit' with a literal of at most MaxPatLen
\* characters.
Patterns ==
    {Pattern(a, l) : a \in BOOLEAN, l \in UNION {[1..n -> Alphabet] : n \in 0..MaxPatLen}}

\* No run of main() is in progress.
MainIdle ==
    /\ pc = "idle"
    /\ args = [list |-> TRUE, environment |-> PyNone]
    /\ files = [f \in Range(CONFIG_FILES) |-> Unreadable]
    /\ cfg = EmptyDict
    /\ loaded = EmptyDict
    /\ environ = PyNone
    /\ pdb = NotConnected
    /\ output = EmptyDict
    /\ nodes = <<>>
    /\ pending = <<>>
    /\ queries = <<>>
    /\ answers = <<>>
    /\ resources = <<>>
    /\ error = NoError
    /\ stdout = NothingPrinted
    /\ exit = PyNone

DeriveInit ==
    /\ MainIdle
    /\ title \in Names
    /\ strip \in Patterns
    /\ group = <<>>
    /\ stage = 0

\* The derivation of lines 182-183 applied to the title, then to its own
\* result.
Derive ==
    /\ stage < 2
    /\ group' = Append(group, GroupName(strip, IF stage = 0 THEN title ELSE group[stage]))
    /\ stage' = stage + 1
    /\ UNCHANGED <<title, strip>>
    /\ UNCHANGED mainVars

DeriveNext == Derive

DeriveSpec == DeriveInit /\ [][DeriveNext]_vars

\* ------------------------------------------------------------------------
\* Properties
\* ------------------------------------------------------------------------
Example == <<"m","o","t","d","_","B","a","n","n","e","r",":",":","M","a","i","n">>
BannerMain == <<"b","a","n","n","e","r","_","m","a","i","n">>

\* The names the node query returned: those iterated and those still to come.
Discovered == Range(nodes) \cup Range(pending)

\* The run got as far as the node query: it is in one of the loops, has
\* finished, or failed in a loop (on a fact value or on a group's hosts).
Querying ==
    \/ pc \in {"node_loop", "resource_loop", "done"}
    \/ pc = "failed" /\ (error.type = "ValueError" \/ error.key = "hosts")

\* The owners, in order, of the yielded resources that belong to a
\* discovered node and derive to group g.
RECURSIVE Members(_, _)
Members(hist, g) ==
    IF hist = <<>>
    THEN <<>>
    ELSE LET r == hist[Len(hist)]
             before == Members(SubSeq(hist, 1, Len(hist) - 1), g)
         IN  IF r.node \in Range(nodes) /\ GroupName(cfg["query"].title_strip, r.name) = g
             THEN Append(before, r.node)
             ELSE before

\* Every host of every group of document d was returned by the node query,
\* and the hosts of a group are exactly the owners of the in-scope resources
\* yielded for it.
ScopedDocument(d) ==
    \A g \in DOMAIN d :
        "hosts" \in DOMAIN d[g] =>
            /\ Range(d[g]["hosts"]) \subseteq Discovered
            /\ d[g]["hosts"] = Members(resources, g)

\* C1: every host name in the hosts list of every group of the inventory
\* document is a name returned by the node query; a resource whose owning
\* node was not discovered adds no group and no host.
C1_HostsAreDiscovered ==
    /\ ScopedDocument(output)
    /\ stdout.printed => ScopedDocument(stdout.doc)
    /\ pc = "done" =>
         DOMAIN stdout.doc \ {Meta} =
            {GroupName(cfg["query"].title_strip, resources[i].name) :
                i \in {j \in 1..Len(resources) : resources[j].node \in Range(nodes)}}

\* C1 witness: a printed document with a group, after a resource of an
\* undiscovered node was yielded.
C1_Witness ==
    /\ pc = "done"
    /\ \E i \in 1..Len(resources) : resources[i].node \notin Range(nodes)
    /\ \E g \in DOMAIN stdout.doc : g # Meta

\* The primitive types of the data model: string, integer, float, boolean.
PrimitiveTypes == {"str", "unicode", "int", "float", "bool"}

\* Some facts query answered with a fact whose value is not primitive.
NonPrimitiveAnswered ==
    \E i \in 1..Len(answers) : \E j \in 1..Len(answers[i]) :
        answers[i][j].value.type \notin PrimitiveTypes

\* C2: once a facts query returns a non-primitive value the run has failed
\* with a ValueError: no resource query was sent, nothing is printed, and no
\* non-primitive value is ever held in _meta.hostvars.
C2_NonPrimitiveFactAborts ==
    /\ NonPrimitiveAnswered =>
         /\ pc = "failed"
         /\ error.type = "ValueError"
         /\ exit = PyInt(1)
         /\ ~stdout.printed
         /\ \A i \in 1..Len(queries) : queries[i].endpoint # "resources"
         /\ resources = <<>>
    /\ Meta \in DOMAIN output =>
         \A n \in DOMAIN output[Meta].hostvars :
            \A k \in DOMAIN output[Meta].hostvars[n] :
                output[Meta].hostvars[n][k].type \in PrimitiveTypes

\* C2 witness: the second node's facts answer holds a primitive fact followed
\* by a non-primitive one, after the first node's hostvars were stored.
C2_Witness ==
    /\ pc = "failed"
    /\ error.type = "ValueError"
    /\ Len(answers) = 2
    /\ Len(answers[2]) = 2
    /\ answers[2][1].value.type \in PrimitiveTypes
    /\ answers[2][2].value.type \notin PrimitiveTypes
    /\ DOMAIN output[Meta].hostvars = {nodes[1]}

\* The derivation in the order the specification states it: strip, then
\* '::' -> '_', then lowercase.
StatedGroupName(title_strip, name) ==
    lower(re_sub(ColonColon, <<"_">>, re_sub(title_strip, <<>>, name)))

\* C3: the group keys of the document are exactly the stated derivation
\* (strip, '::' -> '_', lowercase) of the in-scope resource names; the
\* documented example yields banner_main with {hosts: [host1], vars: {}}.
C3_GroupKeyDerivation ==
    /\ pc \in {"resource_loop", "done", "failed"} /\ Meta \in DOMAIN output =>
         DOMAIN output =
            {Meta} \cup
            {StatedGroupName(cfg["query"].title_strip, resources[i].name) :
                i \in {j \in 1..Len(resources) : resources[j].node \in Range(nodes)}}
    /\ ( /\ pc = "done"
         /\ cfg["query"].title_strip = Pattern(TRUE, Motd)
         /\ resources = <<[node |-> "host1", name |-> Example]>>
         /\ nodes = <<"host1">> )
       => /\ DOMAIN stdout.doc = {Meta, BannerMain}
          /\ stdout.doc[BannerMain] = [hosts |-> <<"host1">>, vars |-> EmptyDict]

\* C3 witness: the documented example has been printed.
C3_Witness ==
    /\ pc = "done"
    /\ cfg["query"].title_strip = Pattern(TRUE, Motd)
    /\ cfg["query"].facts_as_hostvars = <<"os", "ver">>
    /\ resources = <<[node |-> "host1", name |-> Example]>>
    /\ nodes = <<"host1">>
    /\ BannerMain \in DOMAIN stdout.doc

\* The environment values a query filters on.
QueryEnvironments(q) ==
    {q.query[i].value :
        i \in {j \in 1..Len(q.query) :
                 q.query[j].field \in Range(NODE_ENVS) \cup {"environment"}}}

\* C4: when --environment NAME is given, every query issued in the run
\* filters on NAME and none on the environment of the configuration file.
C4_EnvironmentOverridesEveryQuery ==
    args.environment # PyNone =>
        \A i \in 1..Len(queries) : QueryEnvironments(queries[i]) = {args.environment.val}

\* Neither candidate configuration file is readable.
NoConfigFile == \A i \in 1..Len(CONFIG_FILES) : ~files[CONFIG_FILES[i]].readable

\* A run that, without configuration, got past parse_args: the configuration
\* is empty and the run ends in a KeyError on `key`, before any connection
\* or query and with nothing printed.
FailsOnMissingKey(key) ==
    /\ pc \in {"parse_config", "override", "db_connect", "failed"}
    /\ pc # "parse_config" => cfg = EmptyDict /\ loaded = EmptyDict
    /\ ~pdb.connected
    /\ queries = <<>>
    /\ ~stdout.printed
    /\ pc = "failed" =>
         /\ error = [type |-> "KeyError", key |-> key]
         /\ exit = PyInt(1)

\* C5 as stated: without a configuration file every --list run fails with
\* the KeyError of cfg['puppetdb'].
C5_MissingConfigFailsOnPuppetdb ==
    NoConfigFile /\ args.list /\ pc # "parse_args" => FailsOnMissingKey("puppetdb")

\* C5 amended: without a configuration file every --list run fails with a
\* KeyError before any connection or query: that of cfg['query'] in the
\* override when a non-empty --environment is given, that of
\* cfg['puppetdb'] otherwise.
C5_MissingConfigFailsOnFirstKey ==
    NoConfigFile /\ args.list /\ pc # "parse_args" =>
        FailsOnMissingKey(IF args.environment \notin {PyNone, PyStr("")}
                          THEN "query" ELSE "puppetdb")

\* C5 witness: no configuration file, --environment staging, and the run
\* has failed on cfg['query'].
C5_Witness ==
    /\ NoConfigFile
    /\ args.list
    /\ args.environment = PyStr("staging")
    /\ pc = "failed"
    /\ error = [type |-> "KeyError", key |-> "query"]

\* The configuration has been loaded.
Loaded == pc \notin {"parse_args", "parse_config", "idle"}

\* The `query` mapping is as loaded, except possibly for its environment.
QueryKeptButEnvironment ==
    "query" \in DOMAIN cfg =>
        /\ DOMAIN cfg["query"] = DOMAIN loaded["query"]
        /\ \A k \in DOMAIN cfg["query"] \ {"environment"} :
              cfg["query"][k] = loaded["query"][k]

\* C6 as stated: after loading, nothing but query.environment ever differs
\* from the loaded configuration.
C6_OnlyEnvironmentChanges ==
    Loaded =>
        /\ DOMAIN cfg = DOMAIN loaded
        /\ QueryKeptButEnvironment
        /\ "puppetdb" \in DOMAIN cfg => cfg["puppetdb"] = loaded["puppetdb"]

\* C6 amended: after loading, the configuration differs from the loaded one
\* at most in query.environment (set to the --environment value) and, once
\* db_connect has run, in the key ca_cert removed from the puppetdb mapping.
C6_OnlyEnvironmentAndCaCertChange ==
    Loaded =>
        /\ DOMAIN cfg = DOMAIN loaded
        /\ QueryKeptButEnvironment
        /\ "query" \in DOMAIN cfg =>
              \/ cfg["query"]["environment"] = loaded["query"]["environment"]
              \/ /\ args.environment.type = "str"
                 /\ cfg["query"]["environment"] = args.environment.val
        /\ "puppetdb" \in DOMAIN cfg =>
              /\ DOMAIN cfg["puppetdb"] =
                    IF pdb.connected THEN DOMAIN loaded["puppetdb"] \ {"ca_cert"}
                                     ELSE DOMAIN loaded["puppetdb"]
              /\ \A k \in DOMAIN cfg["puppetdb"] :
                    cfg["puppetdb"][k] = loaded["puppetdb"][k]

\* C6 witness: a finished run that overrode the environment and lost ca_cert.
C6_Witness ==
    /\ pc = "done"
    /\ "ca_cert" \in DOMAIN loaded["puppetdb"]
    /\ "ca_cert" \notin DOMAIN cfg["puppetdb"]
    /\ loaded["query"]["environment"] = "prod"
    /\ cfg["query"]["environment"] = "staging"

\* C7: the queries issued are one node query, then one facts query per
\* discovered node in discovery order (none when facts_as_hostvars is
\* empty), then at most one resource query, sent only once every node has
\* been iterated; no query is repeated.
C7_QueryOrder ==
    LET wanted == IF "query" \in DOMAIN cfg /\ cfg["query"].facts_as_hostvars # <<>>
                  THEN Len(nodes) ELSE 0
        sent == pc \in {"resource_loop", "done"} \/ error.key = "hosts"
    IN  /\ ~Querying => queries = <<>>
        /\ Querying =>
             /\ Len(queries) = 1 + wanted + (IF sent THEN 1 ELSE 0)
             /\ queries[1].endpoint = "nodes"
             /\ \A i \in 1..wanted :
                   /\ queries[1 + i].endpoint = "facts"
                   /\ queries[1 + i].query[2] = EqualsOperator("certname", nodes[i])
             /\ sent => /\ queries[Len(queries)].endpoint = "resources"
                        /\ pending = <<>>
        /\ resources # <<>> => sent

\* C7 witness: a finished run with two nodes and their two facts queries.
C7_Witness ==
    /\ pc = "done"
    /\ Len(nodes) = 2
    /\ Len(queries) = 4

\* C8: the derivation never leaves '::' in its result, and applied to its
\* own result, which the strip pattern does not match, it changes nothing.
C8_DerivationIdempotent ==
    /\ stage >= 1 => ~Matches(ColonColon, group[1])
    /\ stage = 2 /\ ~Matches(strip, group[1]) => group[2] = group[1]

\* C8 witness: a title with an upper-case letter and '::', stripped by the
\* pattern, whose result the pattern does not match, derived twice.
C8_Witness ==
    /\ stage = 2
    /\ Matches(strip, title)
    /\ Matches(ColonColon, title)
    /\ "A" \in Range(title)
    /\ ~Matches(strip, group[1])
    /\ group[1] # title
    /\ group[2] = group[1]

\* C9: the unreported threshold of the node query is the configured
\* last_report when that is an integer and 2 when it is null.
C9_UnreportedThreshold ==
    \A i \in 1..Len(queries) :
        queries[i].endpoint = "nodes" =>
            /\ cfg["query"].last_report.type = "int" =>
                  queries[i].unreported = cfg["query"].last_report
            /\ cfg["query"].last_report = PyNone =>
                  queries[i].unreported = PyInt(2)

\* C10: in the document under construction _meta is exactly {hostvars: ..}
\* and every other key is {hosts: non-empty list, vars: {}}; an in-scope
\* resource whose group name is _meta ends the run in a KeyError with
\* nothing printed.
C10_DocumentShape ==
    /\ output # EmptyDict =>
         /\ Meta \in DOMAIN output
         /\ DOMAIN output[Meta] = {"hostvars"}
         /\ \A g \in DOMAIN output \ {Meta} :
               /\ DOMAIN output[g] = {"hosts", "vars"}
               /\ output[g]["hosts"] # <<>>
               /\ output[g]["vars"] = EmptyDict
    /\ (\E i \in 1..Len(resources) :
           /\ resources[i].node \in Range(nodes)
           /\ GroupName(cfg["query"].title_strip, resources[i].name) = Meta)
       => /\ pc = "failed"
          /\ error = [type |-> "KeyError", key |-> "hosts"]
          /\ ~stdout.printed

\* C10 witness: a resource of a discovered node derived to _meta and the run
\* failed on the missing 'hosts' key.
C10_Witness ==
    /\ pc = "failed"
    /\ error = [type |-> "KeyError", key |-> "hosts"]
    /\ output[Meta] = [hostvars |-> EmptyDict]
    /\ Len(resources) = 2

====
